---------------------------- MODULE Spec2Model ----------------------------
(***************************************************************************)
(* Model of the paired-sampling dataset (data_loading/datasets.py,         *)
(* PairDataset) and of the epoch loop of the trainer                       *)
(* (dsne_pytorch/agents.py, Trainer).                                      *)
(*                                                                         *)
(* Positions are 0-based as in the source; a numpy array is a TLA+         *)
(* sequence and At(a, i) reads a[i].  An image is an integer, a transform  *)
(* a function on integers.  A per-class cap is a record [t, v]: t is the   *)
(* Python type of the argument ("int", "float", "str") and v its value     *)
(* (for a float, in tenths).                                               *)
(***************************************************************************)
EXTENDS Integers, Sequences, FiniteSets, TLC

VARIABLES
    inp,          \* the constructor's arguments and the arrays read from HDF5
    pc,           \* "new", "built" (constructor returned), "failed" (it raised)
    attrs,        \* names of the attributes assigned on the object so far
    transforms,   \* self.transforms
    src_X, src_y, \* self.src_X, self.src_y
    tgt_X, tgt_y, \* self.tgt_X, self.tgt_y
    intra_idxs,   \* self.intra_idxs
    inter_idxs,   \* self.inter_idxs
    inter_all,    \* _create_pairs' inter_pair_idxs before the ratio sampling
    full_idxs,    \* self.full_idxs
    shuffled,     \* np.random.shuffle has been called
    err,          \* the exception the constructor raised, or "none"
    ret,          \* the outcome of the last __getitem__ call
    trainer,      \* the Trainer's fields and the position of train()
    steps         \* the last two values handed to writer.set_step

vars == <<inp, pc, attrs, transforms, src_X, src_y, tgt_X, tgt_y, intra_idxs,
          inter_idxs, inter_all, full_idxs, shuffled, err, ret, trainer, steps>>

dsvars == <<inp, pc, attrs, transforms, src_X, src_y, tgt_X, tgt_y, intra_idxs,
            inter_idxs, inter_all, full_idxs, shuffled, err, ret>>

-----------------------------------------------------------------------------
(* Bounds of the model *)

MaxSrc == 3
MaxTgt == 2
MaxEpochs == 3
MaxLenEpoch == 2
MaxBatches == 3

Labels == {0, 1}

-----------------------------------------------------------------------------
(* numpy helpers *)

At(a, i) == a[i + 1]

Range(a) == {a[k] : k \in 1..Len(a)}

SeqsUpTo(S, n) == UNION {[1..k -> S] : k \in 0..n}

Min(a, b) == IF a <= b THEN a ELSE b

\* a[idxs] (advanced indexing with an integer array)
Gather(a, idxs) == [k \in 1..Len(idxs) |-> At(a, idxs[k])]

\* every ordering of the elements of a finite set, as sequences
Orderings(S) ==
    {s \in [1..Cardinality(S) -> S] : \A x \in S : \E k \in DOMAIN s : s[k] = x}

LexLess(a, b) == a[1] < b[1] \/ (a[1] = b[1] /\ a[2] < b[2])

RECURSIVE InsertRow(_, _)
InsertRow(sorted, row) ==
    IF sorted = <<>> THEN <<row>>
    ELSE IF LexLess(row, Head(sorted)) THEN <<row>> \o sorted
    ELSE <<Head(sorted)>> \o InsertRow(Tail(sorted), row)

RECURSIVE SortRows(_)
SortRows(a) ==
    IF a = <<>> THEN <<>>
    ELSE InsertRow(SortRows(SubSeq(a, 1, Len(a) - 1)), a[Len(a)])

\* the key order of lexsort mistaken: rows by column 1, ties by column 0
LexsortKeysSwapped(a) ==
    LET Swap(b) == [k \in 1..Len(b) |-> <<b[k][2], b[k][1]>>]
    IN Swap(SortRows(Swap(a)))

\* a[np.lexsort((a[:, 1], a[:, 0]))]: rows by column 0, ties by column 1
\* (a stable sort: equal rows keep their order)
Lexsort(a) == SortRows(a)

-----------------------------------------------------------------------------
(* PairDataset._resample_data *)

IntCap(n) == [t |-> "int", v |-> n]
FloatCap(tenths) == [t |-> "float", v |-> tenths]
StrCap == [t |-> "str", v |-> 0]

\* the positions of y carrying label c: np.where(y == c)[0]
ClassIdx(y, c) == {i \in 0..(Len(y) - 1) : At(y, i) = c}

\* np.unique(y)
Unique(y) == Range(y)

\* len(i) >= N, for an int or a float N
AtLeast(size, N) == IF N.t = "float" THEN 10 * size >= N.v ELSE size >= N.v

\* the length of i[:N] if len(i) >= N else i
TakeSize(size, N) == IF AtLeast(size, N) THEN N.v ELSE size

\* np.array(subset_idx) is a 2-d integer array only when the per-class
\* subsets have one common length; a ragged list raises ValueError
\* (numpy >= 1.24) or becomes an object array that X[idxs] rejects with
\* IndexError (older numpy)
Ragged(y, N) ==
    \E c, d \in Unique(y) :
        TakeSize(Cardinality(ClassIdx(y, c)), N)
            # TakeSize(Cardinality(ClassIdx(y, d)), N)

\* the sets of positions the per-class shuffles and truncations can select
Subsets(y, N) ==
    {U \in SUBSET (0..(Len(y) - 1)) :
        \A c \in Unique(y) :
            Cardinality(U \cap ClassIdx(y, c))
                = TakeSize(Cardinality(ClassIdx(y, c)), N)}

Raised(e, sh) == [err |-> e, X |-> <<>>, y |-> <<>>, shuffled |-> sh]

Returned(X, y, sh) == [err |-> "none", X |-> X, y |-> y, shuffled |-> sh]

\* every outcome of _resample_data(X, y, N)
ResampleData(X, y, N) ==
    IF N.t = "str" THEN {Raised("TypeError", FALSE)}      \* N > 0
    ELSE IF ~(N.v > 0) THEN {Returned(X, y, FALSE)}
    ELSE IF N.t = "float"
            /\ \E c \in Unique(y) : AtLeast(Cardinality(ClassIdx(y, c)), N)
         THEN {Raised("TypeError", TRUE)}                  \* i[:N]
    ELSE IF Ragged(y, N)
         THEN {Raised("ValueError", TRUE), Raised("IndexError", TRUE)}
    ELSE IF Unique(y) = {}
         THEN {Raised("IndexError", TRUE)}  \* X[idxs], idxs an empty float array
    ELSE UNION {
            {IF \E k \in 1..Len(idxs) : idxs[k] >= Len(X)
                THEN Raised("IndexError", TRUE)
                ELSE Returned(Gather(X, idxs), Gather(y, idxs), TRUE)
             : idxs \in Orderings(U)}
          : U \in Subsets(y, N)}


-----------------------------------------------------------------------------
(* PairDataset._create_pairs *)

\* the (N, M) mesh grid in row-major order, as (i_S, i_T) index pairs
Grid(N, M) == [k \in 1..(N * M) |-> <<(k - 1) \div M, (k - 1) % M>>]

\* np.argwhere(source == target)
IntraPairs(sy, ty) ==
    SelectSeq(Grid(Len(sy), Len(ty)), LAMBDA p : At(sy, p[1]) = At(ty, p[2]))

\* the comparison mistaken: np.argwhere(source > target)
InterPairsGreater(sy, ty) ==
    SelectSeq(Grid(Len(sy), Len(ty)), LAMBDA p : At(sy, p[1]) > At(ty, p[2]))

\* np.argwhere(source != target)
InterPairs(sy, ty) ==
    SelectSeq(Grid(Len(sy), Len(ty)), LAMBDA p : At(sy, p[1]) # At(ty, p[2]))

\* the rows of a at the positions K (1-based), in increasing position
RECURSIVE RowsAt(_, _)
RowsAt(a, K) ==
    IF K = {} THEN <<>>
    ELSE LET k == CHOOSE x \in K : \A z \in K : x <= z
         IN <<a[k]>> \o RowsAt(a, K \ {k})

\* the slice forgotten: every row is kept
SampleRowsAll(a, n) == {Lexsort(a)}

\* np.random.shuffle(a); a[:n]; then the lexsort: the n rows a shuffle can
\* bring to the front (all of them when n >= len(a)), sorted
SampleRows(a, n) ==
    {Lexsort(RowsAt(a, K)) :
        K \in {J \in SUBSET (1..Len(a)) : Cardinality(J) = Min(n, Len(a))}}

\* every outcome of _create_pairs(sample_ratio) on the labels sy, ty
CreatePairs(sy, ty, sample_ratio) ==
    LET intra == IntraPairs(sy, ty)
        inter == InterPairs(sy, ty)
    IN IF sample_ratio > 0
       THEN {[intra |-> intra, all |-> inter, inter |-> s] :
                s \in SampleRows(inter, sample_ratio * Len(intra))}
       ELSE {[intra |-> intra, all |-> inter, inter |-> inter]}

-----------------------------------------------------------------------------
(* PairDataset.__len__ and PairDataset.__getitem__ *)

DatasetLen == Len(full_idxs)

Inc(x) == x + 1
Dbl(x) == 2 * x

Apply(name, x) == IF name = "Inc" THEN Inc(x) ELSE Dbl(x)

\* for transform in self.transforms: X = transform(X)
RECURSIVE ApplyAll(_, _)
ApplyAll(ts, x) ==
    IF ts = <<>> THEN x ELSE ApplyAll(Tail(ts), Apply(Head(ts), x))

NoTransforms == [none |-> TRUE, list |-> <<>>]
TransformList(ts) == [none |-> FALSE, list |-> ts]

GetRaised(idx, e) ==
    [pos |-> idx, err |-> e, X_src |-> 0, y_src |-> 0, X_tgt |-> 0, y_tgt |-> 0]

\* numpy's a[idx] on the first axis: a negative idx counts from the end
Wrap(n, idx) == IF idx < 0 THEN idx + n ELSE idx

\* a bounds check that takes no negative position
InBoundsFromZero(n, idx) == 0 <= idx /\ idx < n

InBounds(n, idx) == -n <= idx /\ idx < n

\* the outcome of __getitem__(idx) on the object as it stands
GetItem(idx) ==
    IF ~InBounds(Len(full_idxs), idx) THEN GetRaised(idx, "IndexError")
    ELSE LET pair == At(full_idxs, Wrap(Len(full_idxs), idx))
             src_idx == pair[1]
             tgt_idx == pair[2]
         IN IF ~InBounds(Len(src_X), src_idx) \/ ~InBounds(Len(tgt_X), tgt_idx)
            THEN GetRaised(idx, "IndexError")
            ELSE IF transforms.none THEN GetRaised(idx, "TypeError")
            ELSE [pos |-> idx, err |-> "none",
                  X_src |-> ApplyAll(transforms.list, At(src_X, src_idx)),
                  y_src |-> At(src_y, src_idx),
                  X_tgt |-> ApplyAll(transforms.list, At(tgt_X, tgt_idx)),
                  y_tgt |-> At(tgt_y, tgt_idx)]


-----------------------------------------------------------------------------
(* The arguments of PairDataset.__init__ *)

\* the images of a domain: distinct integers
Images(base, n) == [k \in 1..n |-> base + k]

\* the default transform list of the model: two maps that do not commute
Chain == TransformList(<<"Inc", "Dbl">>)

Args(sy, ds, ty, dt, sn, tn, r, t) ==
    [src_X |-> Images(10, Len(sy) + ds), src_y |-> sy,
     tgt_X |-> Images(20, Len(ty) + dt), tgt_y |-> ty,
     src_num |-> sn, tgt_num |-> tn, sample_ratio |-> r, transforms |-> t]

SrcLabels == SeqsUpTo(Labels, MaxSrc)
TgtLabels == SeqsUpTo(Labels, MaxTgt)

\* integer caps (-1 is "no cap") and ratios (-1 is "no sampling")
SrcCaps == {IntCap(-1), IntCap(2)}
TgtCaps == {IntCap(-1), IntCap(1)}
Ratios == {-1, 1, 2}

\* arguments of the documented types, arrays of matching lengths
CoreInputs ==
    {Args(sy, 0, ty, 0, sn, tn, r, Chain) :
        sy \in SrcLabels, ty \in TgtLabels,
        sn \in SrcCaps, tn \in TgtCaps, r \in Ratios}

\* caps that are no integers: 2.5, -1.5 and a string
BadCaps == {FloatCap(25), FloatCap(-15), StrCap}

BadCapInputs ==
    {Args(sy, 0, ty, 0, sn, IntCap(1), -1, Chain) :
        sy \in SrcLabels, ty \in TgtLabels, sn \in BadCaps}
    \cup
    {Args(sy, 0, ty, 0, sn, tn, -1, Chain) :
        sy \in SrcLabels, ty \in TgtLabels, sn \in SrcCaps, tn \in BadCaps}

\* len(X) - len(y) of the arrays stored in an HDF5 file
Deltas == {-1, 1}

MismatchInputs ==
    {Args(sy, d, ty, 0, sn, IntCap(1), -1, Chain) :
        sy \in SrcLabels, ty \in TgtLabels, sn \in SrcCaps, d \in Deltas}
    \cup
    {Args(sy, 0, ty, d, IntCap(-1), tn, -1, Chain) :
        sy \in SrcLabels, ty \in TgtLabels, tn \in TgtCaps, d \in Deltas}

\* transforms=None (the default) and the empty list
OtherTransformInputs ==
    {Args(sy, 0, ty, 0, IntCap(-1), IntCap(1), -1, t) :
        sy \in SrcLabels, ty \in TgtLabels,
        t \in {NoTransforms, TransformList(<<>>)}}

Inputs == CoreInputs \cup BadCapInputs \cup MismatchInputs \cup OtherTransformInputs

NoCall == GetRaised(0, "nocall")

InitDataset ==
    /\ inp \in Inputs
    /\ pc = "new"
    /\ attrs = {}
    /\ transforms = NoTransforms
    /\ src_X = <<>> /\ src_y = <<>>
    /\ tgt_X = <<>> /\ tgt_y = <<>>
    /\ intra_idxs = <<>> /\ inter_idxs = <<>> /\ inter_all = <<>>
    /\ full_idxs = <<>>
    /\ shuffled = FALSE
    /\ err = "none"
    /\ ret = NoCall

-----------------------------------------------------------------------------
(* PairDataset.__init__ *)

ConstructFailsAtSource(r1) ==
    /\ pc' = "failed"
    /\ err' = r1.err
    /\ attrs' = {"transforms"}
    /\ shuffled' = r1.shuffled
    /\ UNCHANGED <<src_X, src_y, tgt_X, tgt_y, intra_idxs, inter_idxs,
                   inter_all, full_idxs>>

ConstructFailsAtTarget(r1, r2) ==
    /\ pc' = "failed"
    /\ err' = r2.err
    /\ attrs' = {"transforms", "src_X", "src_y"}
    /\ src_X' = r1.X /\ src_y' = r1.y
    /\ shuffled' = (r1.shuffled \/ r2.shuffled)
    /\ UNCHANGED <<tgt_X, tgt_y, intra_idxs, inter_idxs, inter_all, full_idxs>>

ConstructReturns(r1, r2, cp) ==
    /\ pc' = "built"
    /\ err' = "none"
    /\ attrs' = {"transforms", "src_X", "src_y", "tgt_X", "tgt_y",
                 "intra_idxs", "inter_idxs", "full_idxs"}
    /\ src_X' = r1.X /\ src_y' = r1.y
    /\ tgt_X' = r2.X /\ tgt_y' = r2.y
    /\ intra_idxs' = cp.intra
    /\ inter_idxs' = cp.inter
    /\ inter_all' = cp.all
    /\ full_idxs' = Lexsort(cp.intra \o cp.inter)
    /\ shuffled' = (r1.shuffled \/ r2.shuffled \/ inp.sample_ratio > 0)

Construct ==
    /\ pc = "new"
    /\ transforms' = inp.transforms
    /\ \E r1 \in ResampleData(inp.src_X, inp.src_y, inp.src_num) :
          IF r1.err # "none" THEN ConstructFailsAtSource(r1)
          ELSE \E r2 \in ResampleData(inp.tgt_X, inp.tgt_y, inp.tgt_num) :
                 IF r2.err # "none" THEN ConstructFailsAtTarget(r1, r2)
                 ELSE \E cp \in CreatePairs(r1.y, r2.y, inp.sample_ratio) :
                        ConstructReturns(r1, r2, cp)
    /\ UNCHANGED <<inp, ret, trainer, steps>>

\* the positions a caller passes: every valid one, the one past the end, and
\* the negative ones -1, -len and -len - 1
Positions == (0..DatasetLen) \cup {-1, -DatasetLen, -(DatasetLen + 1)}

\* a read that stores the transformed source image back into self.src_X
GetInPlace ==
    /\ pc = "built"
    /\ \E idx \in Positions :
          /\ ret' = GetItem(idx)
          /\ src_X' = IF GetItem(idx).err = "none"
                       THEN LET s == At(full_idxs, Wrap(Len(full_idxs), idx))[1]
                            IN [src_X EXCEPT ![s + 1] = GetItem(idx).X_src]
                       ELSE src_X
    /\ UNCHANGED <<inp, pc, attrs, transforms, src_y, tgt_X, tgt_y,
                   intra_idxs, inter_idxs, inter_all, full_idxs, shuffled, err,
                   trainer, steps>>

Get ==
    /\ pc = "built"
    /\ \E idx \in Positions : ret' = GetItem(idx)
    /\ UNCHANGED <<inp, pc, attrs, transforms, src_X, src_y, tgt_X, tgt_y,
                   intra_idxs, inter_idxs, inter_all, full_idxs, shuffled, err,
                   trainer, steps>>

-----------------------------------------------------------------------------
(* Trainer *)

None == -1

\* InfLoader (dsne_pytorch/data_loading/dataloaders.py) wraps a loader so
\* that iterating it never ends
InfLoaderHasNext(k) == TRUE

\* Trainer.__init__: the fields that set the duration of training
TrainerNew(n_batches, epochs, len_epoch, save_period, resume) ==
    [pc |-> "idle",
     start_epoch |-> IF resume = None THEN 1 ELSE resume + 1,
     epochs |-> epochs,
     inf |-> (len_epoch # None),
     n_batches |-> n_batches,
     len_epoch |-> IF len_epoch = None THEN n_batches ELSE len_epoch,
     save_period |-> save_period,
     epoch |-> 0,
     batch_idx |-> 0,
     saved |-> {}]

TrainerArgs ==
    {TrainerNew(n, e, l, sp, r) :
        n \in 1..MaxBatches, e \in 1..MaxEpochs,
        l \in {None} \cup 1..MaxLenEpoch, sp \in 1..2, r \in {None, 1}}

\* the value _train_epoch hands to writer.set_step
GlobalStep(epoch, len_epoch, batch_idx) == (epoch - 1) * len_epoch + batch_idx

\* enumerate(self.data_loader) has another batch at index k
HasNext(k) == IF trainer.inf THEN InfLoaderHasNext(k) ELSE k < trainer.n_batches

\* if batch_idx == self.len_epoch: break
Breaks(batch_idx) == batch_idx = trainer.len_epoch

\* train(): the first iteration of for epoch in range(start_epoch, epochs + 1)
TrainBegin ==
    /\ trainer.pc = "idle"
    /\ trainer' = IF trainer.start_epoch <= trainer.epochs
                   THEN [trainer EXCEPT !.pc = "epoch",
                                        !.epoch = trainer.start_epoch,
                                        !.batch_idx = 0]
                   ELSE [trainer EXCEPT !.pc = "done"]
    /\ UNCHANGED <<steps>>
    /\ UNCHANGED dsvars

\* _train_epoch: one pass of the batch loop
TrainBatch ==
    /\ trainer.pc = "epoch"
    /\ HasNext(trainer.batch_idx)
    /\ steps' = (IF steps = <<>> THEN <<>> ELSE <<steps[Len(steps)]>>)
                    \o <<GlobalStep(trainer.epoch, trainer.len_epoch,
                                    trainer.batch_idx)>>
    /\ trainer' = IF Breaks(trainer.batch_idx)
                   THEN [trainer EXCEPT !.pc = "epoch_end"]
                   ELSE [trainer EXCEPT !.batch_idx = trainer.batch_idx + 1]
    /\ UNCHANGED dsvars

\* _train_epoch: the loader is exhausted and the loop ends
TrainLoaderEnds ==
    /\ trainer.pc = "epoch"
    /\ ~HasNext(trainer.batch_idx)
    /\ trainer' = [trainer EXCEPT !.pc = "epoch_end"]
    /\ UNCHANGED <<steps>>
    /\ UNCHANGED dsvars

\* train(): the rest of the loop body after _train_epoch, and the next epoch
TrainEpochEnd ==
    /\ trainer.pc = "epoch_end"
    /\ LET saved == IF trainer.epoch % trainer.save_period = 0
                     THEN trainer.saved \cup {trainer.epoch}
                     ELSE trainer.saved
       IN trainer' = IF trainer.epoch < trainer.epochs
                      THEN [trainer EXCEPT !.pc = "epoch",
                                           !.epoch = trainer.epoch + 1,
                                           !.batch_idx = 0,
                                           !.saved = saved]
                      ELSE [trainer EXCEPT !.pc = "done", !.saved = saved]
    /\ UNCHANGED <<steps>>
    /\ UNCHANGED dsvars

-----------------------------------------------------------------------------
(* Specifications *)

\* the dataset's life: construction, then reads
Init ==
    /\ InitDataset
    /\ trainer = TrainerNew(1, 1, None, 1, None)
    /\ steps = <<>>

Next == Construct \/ Get

Spec == Init /\ [][Next]_vars

\* a training run
InitTrain ==
    /\ InitDataset
    /\ inp = Args(<<>>, 0, <<>>, 0, IntCap(-1), IntCap(-1), -1, Chain)
    /\ trainer \in TrainerArgs
    /\ steps = <<>>

NextTrain == TrainBegin \/ TrainBatch \/ TrainLoaderEnds \/ TrainEpochEnd

SpecTrain == InitTrain /\ [][NextTrain]_vars

-----------------------------------------------------------------------------
(* Properties *)

Count(y, c) == Cardinality(ClassIdx(y, c))

NoRepeats(a) == Cardinality(Range(a)) = Len(a)

ResampledAttrs ==
    {"src_X", "src_y", "tgt_X", "tgt_y", "intra_idxs", "inter_idxs", "full_idxs"}

\* C1: for a non-empty source domain with images and labels of equal length
\* and an integer cap c > 0, _resample_data returns, and every class of y
\* has min(c, its count in y) samples in the returned labels.
C1_CapInvariant ==
    (/\ pc # "new"
     /\ inp.src_num.t = "int" /\ inp.src_num.v > 0
     /\ Len(inp.src_y) > 0
     /\ Len(inp.src_X) = Len(inp.src_y))
    => /\ "src_y" \in attrs
       /\ \A c \in Unique(inp.src_y) :
             Count(src_y, c) = Min(inp.src_num.v, Count(inp.src_y, c))

\* C2: the intraclass and interclass pairs enumerated by _create_pairs
\* before the ratio sampling partition the N x M grid of the resampled
\* labels: equal labels in intra, unequal labels in inter, no pair in both,
\* and the sizes sum to N * M.
C2_Partition ==
    pc = "built" =>
        /\ \A k \in 1..Len(intra_idxs) :
              At(src_y, intra_idxs[k][1]) = At(tgt_y, intra_idxs[k][2])
        /\ \A k \in 1..Len(inter_all) :
              At(src_y, inter_all[k][1]) # At(tgt_y, inter_all[k][2])
        /\ Range(intra_idxs) \cap Range(inter_all) = {}
        /\ Len(intra_idxs) + Len(inter_all) = Len(src_y) * Len(tgt_y)
        /\ Range(intra_idxs) \cup Range(inter_all)
              = (0..(Len(src_y) - 1)) \X (0..(Len(tgt_y) - 1))

C2_Witness ==
    /\ pc = "built"
    /\ Len(intra_idxs) >= 2
    /\ Len(inter_all) >= 2
    /\ Len(src_y) # Len(tgt_y)

\* C3: for sample_ratio > 0 the interclass pairs _create_pairs returns are
\* exactly min(sample_ratio * |intra|, |inter|) of the enumerated interclass
\* pairs, none of them repeated.
C3_RatioBound ==
    (pc = "built" /\ inp.sample_ratio > 0) =>
        /\ Len(inter_idxs)
              = Min(inp.sample_ratio * Len(intra_idxs), Len(inter_all))
        /\ Range(inter_idxs) \subseteq Range(inter_all)
        /\ NoRepeats(inter_idxs)

C3_Witness ==
    /\ pc = "built"
    /\ inp.sample_ratio > 0
    /\ Len(inter_idxs) > 0
    /\ Len(inter_idxs) < Len(inter_all)

\* C4: after construction full_idxs has len(intra_idxs) + len(inter_idxs)
\* rows, holds exactly those pairs, is in non-decreasing lexicographic order
\* by (source position, target position), and repeats no pair.
C4_IndexOrder ==
    pc = "built" =>
        /\ Len(full_idxs) = Len(intra_idxs) + Len(inter_idxs)
        /\ Range(full_idxs) = Range(intra_idxs) \cup Range(inter_idxs)
        /\ \A k \in 1..(Len(full_idxs) - 1) :
              ~LexLess(full_idxs[k + 1], full_idxs[k])
        /\ NoRepeats(full_idxs)

C4_Witness ==
    /\ pc = "built"
    /\ inp.sample_ratio > 0
    /\ inp.src_num.v > 0
    /\ Len(intra_idxs) > 0 /\ Len(inter_idxs) > 0
    /\ full_idxs # intra_idxs \o inter_idxs

C6_Resolution ==
    (/\ pc = "built"
     /\ ret.err # "nocall"
     /\ 0 <= ret.pos /\ ret.pos < DatasetLen
     /\ Len(src_X) = Len(src_y) /\ Len(tgt_X) = Len(tgt_y))
    => LET s == At(full_idxs, ret.pos)[1]
           t == At(full_idxs, ret.pos)[2]
       IN /\ ret.err = "none"
          /\ ret.y_src = At(src_y, s)
          /\ ret.y_tgt = At(tgt_y, t)
          /\ ret.X_src = ApplyAll(inp.transforms.list, At(src_X, s))
          /\ ret.X_tgt = ApplyAll(inp.transforms.list, At(tgt_X, t))

\* C7: a __getitem__ call leaves transforms, src_X, src_y, tgt_X, tgt_y and
\* the pair indexes as they were, and the same call repeated on the object
\* it leaves behind gives the result it gave.
C7_PureRead ==
    [][pc = "built" =>
        /\ UNCHANGED <<transforms, src_X, src_y, tgt_X, tgt_y, intra_idxs,
                       inter_idxs, full_idxs>>
        /\ GetItem(ret.pos)' = ret']_vars

C7_Witness ==
    /\ pc = "built"
    /\ ret.err = "none"
    /\ ret.pos > 0
    /\ ret.X_src # At(src_X, At(full_idxs, ret.pos)[1])

\* C8: with a cap that is no integer the constructor raises, before any
\* shuffle and before any resampled array or pair index is set on the
\* object.
C8_InvalidCap ==
    (pc # "new" /\ (inp.src_num.t # "int" \/ inp.tgt_num.t # "int"))
    => /\ pc = "failed"
       /\ ~shuffled
       /\ attrs \cap ResampledAttrs = {}

\* C9: when a domain's image and label arrays differ in length the
\* constructor raises, and no constructed view has images and labels of
\* different lengths.
C9_ShapeMismatch ==
    /\ (/\ pc # "new"
        /\ (Len(inp.src_X) # Len(inp.src_y) \/ Len(inp.tgt_X) # Len(inp.tgt_y)))
       => pc = "failed"
    /\ pc = "built" => (Len(src_X) = Len(src_y) /\ Len(tgt_X) = Len(tgt_y))

\* C10: each value handed to writer.set_step is greater than the one handed
\* to it for the batch before, within an epoch and across epochs.
C10_StepsIncrease ==
    Len(steps) = 2 => steps[1] < steps[2]

=============================================================================
